---------------------------- MODULE Spec2Model ----------------------------
(***************************************************************************)
(* NBHWC study platform back end: the relational store, registration, the  *)
(* quiz generators and the quiz submission handler, as state machines.     *)
(*                                                                         *)
(* JavaScript numbers are modelled as exact rationals [kind, num, den]     *)
(* (den > 0) plus the three non-finite values NaN, Infinity and -Infinity. *)
(* For the integer inputs used here the IEEE-754 double results of         *)
(* (c / t) * 100, score / 100 * 20 and Math.round agree with the exact     *)
(* rational results (compared for -60 <= c <= 800, -60 <= t <= 400,        *)
(* -30 <= mastery <= 100), so the rational model computes what the code    *)
(* computes.                                                               *)
(***************************************************************************)
EXTENDS Integers, Sequences, FiniteSets, TLC

VARIABLES
    db,         \* the committed PostgreSQL store: a record of tables
    pc,         \* position of the in-flight POST /api/quizzes/submit handler
    req,        \* its request: userId (from the token), topic, correctAnswers, totalQuestions
    local,      \* its local constants: score, pointsEarned, currentMastery, newMastery
    tx,         \* the uncommitted writes of its transaction on `client`
    res,        \* the HTTP status it answered (0: no response sent)
    before,     \* the committed store when the handler started (history variable)
    budget,     \* number of submit requests still to be issued (bounds the run)
    contentDB,  \* contentDB.questions of the servers with a built-in content library
    quiz,       \* the last POST /api/quizzes request and its answer
    trend,      \* the last GET /api/analytics/mastery-trend request and its answer
    run,        \* the importer script being run (one at a time, from a shell)
    conc,       \* request handlers running concurrently, each on its own pool client
    auth        \* the last run of the authenticateToken middleware and its outcome

submitVars == <<pc, req, local, tx, res, before, budget, auth>>
quizVars == <<contentDB, quiz>>
vars == <<db, pc, req, local, tx, res, before, budget, contentDB, quiz, trend, run, conc,
          auth>>

-----------------------------------------------------------------------------
(* Bounds of the model *)

MaxSubmits == 2
MaxTotal == 8
MaxDuration == 60
MaxRows == 2
MaxRuns == 2
BatchSize == 1      \* rows per batch of the batched importer (batchSize = 100 there)

Emails == {"a@example.org", "b@example.org"}
TopicNames == {"SMART Goals", "Sleep Science"}

-----------------------------------------------------------------------------
(* JavaScript number arithmetic *)

Num(n) == [kind |-> "num", num |-> n, den |-> 1]
NaN == [kind |-> "NaN", num |-> 0, den |-> 1]
Infinity == [kind |-> "Infinity", num |-> 0, den |-> 1]
NegInfinity == [kind |-> "-Infinity", num |-> 0, den |-> 1]

Sign(n) == IF n > 0 THEN 1 ELSE IF n < 0 THEN -1 ELSE 0
Abs(n) == IF n < 0 THEN -n ELSE n
Negate(x) ==
    IF x.kind = "Infinity" THEN NegInfinity
    ELSE IF x.kind = "-Infinity" THEN Infinity
    ELSE x

\* x / n for a JS number x and an integer n (the `/` operator)
JSDivide(x, n) ==
    IF x.kind = "NaN" THEN NaN
    ELSE IF x.kind = "num"
    THEN IF n # 0 THEN [kind |-> "num", num |-> x.num * Sign(n), den |-> x.den * Abs(n)]
         ELSE IF x.num = 0 THEN NaN
         ELSE IF x.num > 0 THEN Infinity ELSE NegInfinity
    ELSE IF n >= 0 THEN x ELSE Negate(x)

\* x * n for a JS number x and an integer n (the `*` operator)
JSTimes(x, n) ==
    IF x.kind = "NaN" THEN NaN
    ELSE IF x.kind = "num" THEN [kind |-> "num", num |-> x.num * n, den |-> x.den]
    ELSE IF n = 0 THEN NaN
    ELSE IF n > 0 THEN x ELSE Negate(x)

\* n + x for an integer n and a JS number x (the `+` operator)
JSPlus(n, x) ==
    IF x.kind = "num" THEN [kind |-> "num", num |-> n * x.den + x.num, den |-> x.den]
    ELSE x

\* x === n
StrictEquals(x, n) == x.kind = "num" /\ x.num = n * x.den

MathRoundDown(x) ==
    IF x.kind = "num" THEN Num(x.num \div x.den) ELSE x

\* Math.round: the integer nearest to x, ties towards +Infinity
MathRound(x) ==
    IF x.kind = "num" THEN Num((2 * x.num + x.den) \div (2 * x.den)) ELSE x

\* Math.min(n, x): NaN if x is NaN
MathMin(n, x) ==
    IF x.kind = "NaN" THEN NaN
    ELSE IF x.kind = "Infinity" THEN Num(n)
    ELSE IF x.kind = "-Infinity" THEN x
    ELSE IF x.num < n * x.den THEN x ELSE Num(n)

-----------------------------------------------------------------------------
(* POST /api/quizzes/submit: the scoring arithmetic *)

\* const score = (correctAnswers / totalQuestions) * 100;
score(correctAnswers, totalQuestions) ==
    JSTimes(JSDivide(Num(correctAnswers), totalQuestions), 100)

pointsEarnedNoBonus(correctAnswers, s) == correctAnswers * 10

\* const pointsEarned = (correctAnswers * 10) + (score === 100 ? 50 : 0);
pointsEarned(correctAnswers, s) ==
    (correctAnswers * 10) + (IF StrictEquals(s, 100) THEN 50 ELSE 0)

newMasteryTruncating(currentMastery, s) ==
    MathMin(100, MathRoundDown(JSPlus(currentMastery, JSTimes(JSDivide(s, 100), 20))))

\* const newMastery = Math.min(100, Math.round(currentMastery + (score / 100 * 20)));
newMastery(currentMastery, s) ==
    MathMin(100, MathRound(JSPlus(currentMastery, JSTimes(JSDivide(s, 100), 20))))

-----------------------------------------------------------------------------
(* The store *)

EmptyDb ==
    [users |-> <<>>,                 \* users: user_id (SERIAL) is the position, the value the email
     user_stats |-> <<>>,            \* user_stats.points of each user_id
     user_mastery |-> {},            \* rows [user_id, topic_name, mastery_score]
     user_mastery_history |-> <<>>,  \* rows [user_id, topic_name, mastery_score], by recorded_at
     topics |-> {},                  \* topics.topic_name
     questions |-> <<>>,             \* questions joined with topics and question_options:
                                     \* rows [question_id, topic_name, options], the options
                                     \* rows [option_text, is_correct] in option_id order
     question_seq |-> 0,             \* last value of the SERIAL questions.question_id
     flashcards |-> <<>>]            \* rows [topic_name, term], topic_name standing for the
                                     \* topic_id of the topics row with that name

NoTx == [points |-> <<>>, mastery |-> <<>>, history |-> <<>>]
NoReq == [userId |-> 0, topic |-> "", correctAnswers |-> 0, totalQuestions |-> 0]
NoLocal == [score |-> NaN, pointsEarned |-> 0, currentMastery |-> 0,
            newMastery |-> NaN, failedAt |-> ""]

\* SELECT mastery_score FROM user_mastery WHERE user_id = $1 AND topic_name = $2
MasteryRows(d, userId, topic) ==
    {r \in d.user_mastery : r.user_id = userId /\ r.topic_name = topic}

\* UPDATE user_stats SET points = points + $1 WHERE user_id = $2: the value the
\* statement gives the row, computed from the committed row it finds
PointsAfter(d, userId, earned) ==
    IF userId \in DOMAIN d.user_stats THEN d.user_stats[userId] + earned ELSE 0

ApplyWithoutMastery(d, t) ==
    [d EXCEPT
        !.user_stats =
            [u \in DOMAIN d.user_stats |->
                IF t.points # <<>> /\ u = t.points[1].user_id
                THEN t.points[1].points
                ELSE d.user_stats[u]],
        !.user_mastery_history = d.user_mastery_history \o t.history]

\* The effect of the transaction's statements, made visible by COMMIT
Apply(d, t) ==
    [d EXCEPT
        !.user_stats =
            [u \in DOMAIN d.user_stats |->
                IF t.points # <<>> /\ u = t.points[1].user_id
                THEN t.points[1].points
                ELSE d.user_stats[u]],
        !.user_mastery =
            {IF t.mastery # <<>> /\ r.user_id = t.mastery[1].user_id
                                 /\ r.topic_name = t.mastery[1].topic_name
             THEN [r EXCEPT !.mastery_score = t.mastery[1].mastery_score]
             ELSE r : r \in d.user_mastery},
        !.user_mastery_history = d.user_mastery_history \o t.history]

RollbackKeepsWrites(d, t) == Apply(d, t)

\* await client.query('ROLLBACK'): the store keeps none of the transaction's writes
Rollback(d, t) == d

-----------------------------------------------------------------------------
(* authenticateToken, the middleware in front of the data routes *)

\* a bearer token: none sent, one signed by login for userId, or one that jwt.verify
\* refuses (wrong signature, tampered payload, expired) whatever userId it claims
NoToken == [kind |-> "none", userId |-> 0]

\* jwt.verify(token, JWT_SECRET, ...) calls back without err
Verifies(token) == token.kind = "signed"

NoAuth == [route |-> "", token |-> NoToken, status |-> 0, next |-> FALSE, userId |-> 0]

authenticateTokenUnverified(route, token) ==
    IF token = NoToken
    THEN [route |-> route, token |-> token, status |-> 401, next |-> FALSE, userId |-> 0]
    ELSE [route |-> route, token |-> token, status |-> 0, next |-> TRUE,
          userId |-> token.userId]

\* status: the answer of the middleware itself; next: it called next() with
\* req.user = the payload of the token
authenticateToken(route, token) ==
    IF token = NoToken
    THEN [route |-> route, token |-> token, status |-> 401, next |-> FALSE, userId |-> 0]
    ELSE IF ~Verifies(token)
    THEN [route |-> route, token |-> token, status |-> 403, next |-> FALSE, userId |-> 0]
    ELSE [route |-> route, token |-> token, status |-> 0, next |-> TRUE,
          userId |-> token.userId]

-----------------------------------------------------------------------------
(* POST /api/auth/register *)

Range(s) == {s[i] : i \in DOMAIN s}

Register(email) ==
    /\ IF email \in Range(db.users)
       THEN UNCHANGED db               \* 409 Email already exists
       ELSE LET userId == Len(db.users) + 1 IN
            db' = [db EXCEPT
                    !.users = Append(@, email),
                    !.user_stats = Append(@, 0),
                    !.user_mastery = @ \cup
                        {[user_id |-> userId, topic_name |-> n, mastery_score |-> 0]
                            : n \in db.topics}]
    /\ UNCHANGED submitVars
    /\ UNCHANGED quizVars
    /\ UNCHANGED <<trend, run, conc>>

\* The first server of part_000: the transaction inserts the user and the stats row
RegisterV1(email) ==
    /\ IF email \in Range(db.users)
       THEN UNCHANGED db               \* 409 Email already exists
       ELSE db' = [db EXCEPT
                    !.users = Append(@, email),
                    !.user_stats = Append(@, 0)]
    /\ UNCHANGED submitVars
    /\ UNCHANGED quizVars
    /\ UNCHANGED <<trend, run, conc>>

\* const topics = ['Coaching Structure', ...];  (index.js, V3 and V4)
HardCodedTopics ==
    {"Coaching Structure", "Coaching Process", "Health & Wellness",
     "Ethics, Legal & Professional Responsibility", "Motivational Interviewing",
     "SMART Goals", "HIPAA Basics"}

\* The database-backed server: a mastery row per name of the list in the handler
RegisterV3(email) ==
    /\ IF email \in Range(db.users)
       THEN UNCHANGED db               \* 409 Email already exists
       ELSE LET userId == Len(db.users) + 1 IN
            db' = [db EXCEPT
                    !.users = Append(@, email),
                    !.user_stats = Append(@, 0),
                    !.user_mastery = @ \cup
                        {[user_id |-> userId, topic_name |-> n, mastery_score |-> 0]
                            : n \in HardCodedTopics}]
    /\ UNCHANGED submitVars
    /\ UNCHANGED quizVars
    /\ UNCHANGED <<trend, run, conc>>

-----------------------------------------------------------------------------
(* POST /api/quizzes/submit, one action per awaited store call *)

SubmitRequest(userId, topic, correctAnswers, totalQuestions) ==
    /\ pc \in {"idle", "done"}
    /\ budget > 0
    /\ userId \in DOMAIN db.users
    /\ budget' = budget - 1
    /\ req' = [userId |-> userId, topic |-> topic,
               correctAnswers |-> correctAnswers, totalQuestions |-> totalQuestions]
    /\ local' = [NoLocal EXCEPT !.score = score(correctAnswers, totalQuestions)]
    /\ tx' = NoTx
    /\ res' = 0
    /\ before' = db
    /\ pc' = "connect"
    /\ UNCHANGED <<db, auth>>
    /\ UNCHANGED quizVars
    /\ UNCHANGED <<trend, run, conc>>

\* a store call inside the try block threw: catch { ROLLBACK; 500 } finally { release }
Failed(step) ==
    /\ db' = Rollback(db, tx)
    /\ tx' = NoTx
    /\ local' = [local EXCEPT !.failedAt = step]
    /\ res' = 500
    /\ pc' = "done"
    /\ UNCHANGED <<req, before, budget>>

\* const client = await pool.connect();  (outside the try block)
Connect(ok) ==
    /\ pc = "connect"
    /\ IF ok
       THEN /\ pc' = "begin"
            /\ UNCHANGED <<db, req, local, tx, res, before, budget>>
       ELSE /\ pc' = "done"
            /\ local' = [local EXCEPT !.failedAt = "connect"]
            /\ UNCHANGED <<db, req, tx, res, before, budget>>

Begin(ok) ==
    /\ pc = "begin"
    /\ IF ok
       THEN /\ pc' = "points"
            /\ UNCHANGED <<db, req, local, tx, res, before, budget>>
       ELSE Failed("begin")

UpdatePoints(ok) ==
    /\ pc = "points"
    /\ IF ok
       THEN LET earned == pointsEarned(req.correctAnswers, local.score) IN
            /\ local' = [local EXCEPT !.pointsEarned = earned]
            /\ tx' = [tx EXCEPT !.points =
                          <<[user_id |-> req.userId,
                             points |-> PointsAfter(db, req.userId, earned)]>>]
            /\ pc' = "select"
            /\ UNCHANGED <<db, req, res, before, budget>>
       ELSE Failed("points")

SelectMastery(ok) ==
    /\ pc = "select"
    /\ IF ok
       THEN LET rows == MasteryRows(db, req.userId, req.topic)
                \* masteryResult.rows[0]?.mastery_score || 0
                current == IF rows = {} THEN 0 ELSE (CHOOSE r \in rows : TRUE).mastery_score
            IN
            /\ local' = [local EXCEPT !.currentMastery = current,
                                      !.newMastery = newMastery(current, local.score)]
            /\ pc' = "update"
            /\ UNCHANGED <<db, req, tx, res, before, budget>>
       ELSE Failed("select")

\* mastery_score is an INT column: the parameters 'NaN' and '-Infinity' are refused
UpdateMastery(ok) ==
    /\ pc = "update"
    /\ IF ok /\ local.newMastery.kind = "num"
       THEN /\ tx' = [tx EXCEPT !.mastery =
                        <<[user_id |-> req.userId, topic_name |-> req.topic,
                           mastery_score |-> local.newMastery.num]>>]
            /\ pc' = "insert"
            /\ UNCHANGED <<db, req, local, res, before, budget>>
       ELSE Failed("update")

InsertHistoryBeforeUpdate(ok) ==
    /\ pc = "insert"
    /\ IF ok
       THEN /\ tx' = [tx EXCEPT !.history =
                        <<[user_id |-> req.userId, topic_name |-> req.topic,
                           mastery_score |-> local.currentMastery]>>]
            /\ pc' = "commit"
            /\ UNCHANGED <<db, req, local, res, before, budget>>
       ELSE Failed("insert")

InsertHistory(ok) ==
    /\ pc = "insert"
    /\ IF ok
       THEN /\ tx' = [tx EXCEPT !.history =
                        <<[user_id |-> req.userId, topic_name |-> req.topic,
                           mastery_score |-> local.newMastery.num]>>]
            /\ pc' = "commit"
            /\ UNCHANGED <<db, req, local, res, before, budget>>
       ELSE Failed("insert")

Commit(ok) ==
    /\ pc = "commit"
    /\ IF ok
       THEN /\ db' = Apply(db, tx)
            /\ tx' = NoTx
            /\ res' = 200
            /\ pc' = "done"
            /\ UNCHANGED <<req, local, before, budget>>
       ELSE Failed("commit")

SubmitStep ==
    /\ \E ok \in BOOLEAN :
        \/ Connect(ok)
        \/ Begin(ok)
        \/ UpdatePoints(ok)
        \/ SelectMastery(ok)
        \/ UpdateMastery(ok)
        \/ InsertHistory(ok)
        \/ Commit(ok)
    /\ UNCHANGED auth
    /\ UNCHANGED quizVars
    /\ UNCHANGED <<trend, run, conc>>

-----------------------------------------------------------------------------
(* GET /api/analytics/mastery-trend *)

\* queried: pool.query was called; fault: it rejected
NoTrend == [userId |-> 0, topic |-> "", status |-> 0, queried |-> FALSE,
            fault |-> FALSE, rows |-> <<>>]

TrendRowsOfTopic(d, userId, topic) ==
    LET h == d.user_mastery_history
        at == SelectSeq([i \in 1 .. Len(h) |-> i], LAMBDA i : h[i].topic_name = topic)
    IN  [k \in 1 .. Len(at) |->
            [mastery_score |-> h[at[k]].mastery_score, recorded_at |-> at[k]]]

\* SELECT mastery_score, recorded_at FROM user_mastery_history
\* WHERE user_id = $1 AND topic_name = $2 ORDER BY recorded_at ASC
\* (recorded_at is the position of the row in the history)
TrendRows(d, userId, topic) ==
    LET h == d.user_mastery_history
        at == SelectSeq([i \in 1 .. Len(h) |-> i],
                        LAMBDA i : h[i].user_id = userId /\ h[i].topic_name = topic)
    IN  [k \in 1 .. Len(at) |->
            [mastery_score |-> h[at[k]].mastery_score, recorded_at |-> at[k]]]

\* topic "" stands for a request without the topic query parameter
MasteryTrend(userId, topic, ok) ==
    /\ userId \in DOMAIN db.users
    /\ LET request == [NoTrend EXCEPT !.userId = userId, !.topic = topic] IN
       IF topic = ""
       THEN trend' = [request EXCEPT !.status = 400]
       ELSE IF ok
            THEN trend' = [request EXCEPT !.status = 200, !.queried = TRUE,
                                          !.rows = TrendRows(db, userId, topic)]
            ELSE trend' = [request EXCEPT !.status = 500, !.queried = TRUE,
                                          !.fault = TRUE]
    /\ UNCHANGED db
    /\ UNCHANGED submitVars
    /\ UNCHANGED quizVars
    /\ UNCHANGED <<run, conc>>

-----------------------------------------------------------------------------
(* The data routes behind authenticateToken: app.post('/api/quizzes/submit',
   authenticateToken, handler) and app.get('/api/analytics/mastery-trend',
   authenticateToken, handler).  The middleware runs first; the handler runs only
   when it called next(), with userId = req.user.userId. *)

Authenticate(route, token) ==
    /\ pc \in {"idle", "done"}
    /\ auth' = authenticateToken(route, token)
    /\ UNCHANGED <<db, pc, req, local, tx, res, before, budget>>
    /\ UNCHANGED quizVars
    /\ UNCHANGED <<trend, run, conc>>

AuthSubmitRequest(topic, correctAnswers, totalQuestions) ==
    /\ auth.next
    /\ auth.route = "submit"
    /\ SubmitRequest(auth.userId, topic, correctAnswers, totalQuestions)

AuthMasteryTrend(topic, ok) ==
    /\ auth.next
    /\ auth.route = "trend"
    /\ MasteryTrend(auth.userId, topic, ok)

-----------------------------------------------------------------------------
(* POST /api/quizzes *)

Max(a, b) == IF a >= b THEN a ELSE b
Min(a, b) == IF a <= b THEN a ELSE b

\* all orders of the sequence s: what Array.prototype.sort leaves with a comparator
\* that answers at random
Shuffles(s) ==
    {[i \in 1 .. Len(s) |-> s[f[i]]] : f \in Permutations(1 .. Len(s))}

\* s.slice(0, n) for n >= 0
Slice0(s, n) == SubSeq(s, 1, Min(n, Len(s)))

\* contentDB.questions of V5, each question with its id and its options array, cut to
\* the first four questions of 'Motivational Interviewing' and the first of
\* 'SMART Goals' (24 orders instead of 10! * 8! * 6!)
ContentLibrary ==
    [t \in {"Motivational Interviewing", "SMART Goals"} |->
        IF t = "SMART Goals"
        THEN <<[id |-> 5, options |-> <<"Specific", "Simple">>]>>
        ELSE <<[id |-> 1, options |-> <<"Expressing empathy", "Giving advice">>],
               [id |-> 2, options |-> <<"Arguing with the client",
                                        "Accepting client's reluctance">>],
               [id |-> 3, options |-> <<"Coach", "Client">>],
               [id |-> 4, options |-> <<"Desire", "Decision">>]>>]

\* names every object literal inherits from Object.prototype: contentDB.questions[name]
\* is a function, which is truthy and has no sort method
ObjectPrototypeNames == {"constructor"}

\* topics a client may ask for: those of the library, a listed topic that has no
\* questions, and an inherited property name
QuizTopics == DOMAIN ContentLibrary \cup {"HIPAA Basics"} \cup ObjectPrototypeNames

\* pool: the ids of the topic's questions when the request was served (history field)
NoQuiz == [handler |-> "", topic |-> "", duration |-> 0, numQuestions |-> 0,
           pool |-> {}, status |-> 0, fault |-> FALSE, body |-> <<>>]

\* Durations are in tenths of a minute, so duration / 1.5 is duration / 15.

numQuestionsV3(duration) == Max(1, duration \div 15)

\* const numQuestions = Math.max(3, Math.floor(duration / 1.5));
numQuestions(duration) == Max(3, duration \div 15)

\* const allTopicQuestions = contentDB.questions[topic] || [];
allTopicQuestions(topic) ==
    IF topic \in DOMAIN contentDB THEN contentDB[topic] ELSE <<>>

\* POST /api/quizzes of the servers with a built-in library (the same body in
\* part_000 159-165, part_000 374-389 and index.js 639-654)
GenerateQuiz(topic, duration) ==
    LET n == numQuestions(duration)
        request == [NoQuiz EXCEPT !.handler = "contentDB", !.topic = topic,
                                  !.duration = duration, !.numQuestions = n,
                                  !.pool = {q.id : q \in Range(allTopicQuestions(topic))}]
    IN
    /\ IF topic \in ObjectPrototypeNames
       THEN \* allTopicQuestions.sort is not a function: TypeError, caught, 500
            /\ quiz' = [request EXCEPT !.status = 500]
            /\ UNCHANGED contentDB
       ELSE \E shuffled \in Shuffles(allTopicQuestions(topic)) :
            \* sort works in place on the array held by contentDB
            /\ contentDB' = IF topic \in DOMAIN contentDB
                            THEN [contentDB EXCEPT ![topic] = shuffled]
                            ELSE contentDB
            /\ quiz' = [request EXCEPT !.status = 200, !.body = Slice0(shuffled, n)]
    /\ UNCHANGED db
    /\ UNCHANGED submitVars
    /\ UNCHANGED <<trend, run, conc>>

-----------------------------------------------------------------------------
(* The question importer and the database-backed POST /api/quizzes (V3) *)

\* Rows of questions.csv: topic, option1..option4, correct_answer_index as parseInt
\* reads it.  The first is well formed, the second counts its options from 1, the
\* third leaves option1 empty.
WellFormedRow ==
    [topic |-> "SMART Goals", option |-> <<"Specific", "Simple", "", "">>,
     correct_answer_index |-> Num(0)]
CountedFromOneRow ==
    [topic |-> "SMART Goals", option |-> <<"Time-bound", "Truthful", "", "">>,
     correct_answer_index |-> Num(2)]
EmptyColumnRow ==
    [topic |-> "Sleep Science", option |-> <<"", "REM", "Deep", "">>,
     correct_answer_index |-> Num(1)]

CsvRows == {WellFormedRow, CountedFromOneRow, EmptyColumnRow}

CsvFiles == UNION {[1 .. n -> CsvRows] : n \in 1 .. MaxRows}

\* [data.option1, data.option2, data.option3, data.option4].filter(Boolean)
FilterBoolean(s) == SelectSeq(s, LAMBDA x : x # "")

\* the question_options rows inserted for one parsed row: is_correct is
\* j === q.correctAnswerIndex, j counting the filtered options from 0
OptionRows(row) ==
    LET options == FilterBoolean(row.option) IN
    [j \in 1 .. Len(options) |->
        [option_text |-> options[j],
         is_correct |-> StrictEquals(row.correct_answer_index, j - 1)]]

\* One importer run that commits: the three DELETEs, then per row the topic upsert,
\* the question insert and the option inserts
ImportQuestions(file) ==
    /\ db.question_seq + Len(file) <= MaxRows + 1    \* caps the SERIAL counter
    /\ db' = [db EXCEPT
                !.topics = {file[i].topic : i \in 1 .. Len(file)},
                !.questions =
                    [i \in 1 .. Len(file) |->
                        [question_id |-> db.question_seq + i,
                         topic_name |-> file[i].topic,
                         options |-> OptionRows(file[i])]],
                !.question_seq = @ + Len(file)]
    /\ UNCHANGED submitVars
    /\ UNCHANGED quizVars
    /\ UNCHANGED <<trend, run, conc>>

\* WHERE t.topic_name = $1
TopicQuestions(topic) ==
    SelectSeq(db.questions, LAMBDA q : q.topic_name = topic)

\* ORDER BY RANDOM() LIMIT $2: the sequences of n distinct rows of s, all of s if
\* it has fewer
RandomLimit(s, n) ==
    LET m == Min(n, Len(s)) IN
    {[i \in 1 .. m |-> s[f[i]]] :
        f \in {g \in [1 .. m -> 1 .. Len(s)] :
                \A i, j \in 1 .. m : i # j => g[i] # g[j]}}

\* q.options.find(opt => opt.is_correct) is undefined: reading .option_text throws
Throws(q) == \A j \in 1 .. Len(q.options) : ~q.options[j].is_correct

\* the objects formattedQuestions may hold for the row q
formattedQuestion(q) ==
    LET correct == CHOOSE j \in 1 .. Len(q.options) :
                      /\ q.options[j].is_correct
                      /\ \A i \in 1 .. j - 1 : ~q.options[i].is_correct
        texts == [j \in 1 .. Len(q.options) |-> q.options[j].option_text]
    IN  {[id |-> q.question_id, answer |-> q.options[correct].option_text, options |-> o]
            : o \in Shuffles(texts)}

GenerateQuizV3(topic, duration, ok) ==
    LET n == numQuestionsV3(duration)
        request == [NoQuiz EXCEPT !.handler = "V3", !.topic = topic,
                                  !.duration = duration, !.numQuestions = n,
                                  !.pool = {q.question_id : q \in Range(TopicQuestions(topic))}]
    IN
    /\ IF ~ok
       THEN \* pool.query rejected
            quiz' = [request EXCEPT !.status = 500, !.fault = TRUE]
       ELSE \E rows \in RandomLimit(TopicQuestions(topic), n) :
            IF \E i \in 1 .. Len(rows) : Throws(rows[i])
            THEN quiz' = [request EXCEPT !.status = 500]
            ELSE \E formattedQuestions \in
                        [1 .. Len(rows) ->
                            UNION {formattedQuestion(rows[i]) : i \in 1 .. Len(rows)}] :
                    /\ \A i \in 1 .. Len(rows) :
                            formattedQuestions[i] \in formattedQuestion(rows[i])
                    /\ quiz' = [request EXCEPT !.status = 200,
                                               !.body = formattedQuestions]
    /\ UNCHANGED <<db, contentDB>>
    /\ UNCHANGED submitVars
    /\ UNCHANGED <<trend, run, conc>>

-----------------------------------------------------------------------------
(* The importer scripts, one action per phase of a run: the single-transaction
   question importer (part_001), the batched question importer
   (import-questions.js) and the flashcard importer (import-flashcards.js).
   The flashcards table is created outside this repository; the model never
   deletes a topic while a flashcard refers to it. *)

\* the tables an importer writes
Catalog(d) == [topics |-> d.topics, questions |-> d.questions, flashcards |-> d.flashcards]

NoCatalog == Catalog(EmptyDb)

NoRun == [script |-> "", pc |-> "idle", file |-> <<>>, next |-> 1,
          work |-> NoCatalog,      \* the catalog as the open transaction sees it
          outcome |-> "",          \* "committed": the script ran to its end; "failed": catch
          failedAt |-> "",         \* the phase whose store call threw
          start |-> NoCatalog,     \* the committed catalog when the run started (history)
          prev |-> [script |-> "", file |-> <<>>, outcome |-> ""],   \* the run before
          acquired |-> 0,          \* clients this run got from pool.connect()
          released |-> 0,          \* calls of client.release() by this run
          runs |-> 0]

\* the files of the question importers and of the flashcard importer
QuestionFiles ==
    {<<WellFormedRow>>, <<WellFormedRow, EmptyColumnRow>>,
     <<EmptyColumnRow, CountedFromOneRow, WellFormedRow>>}

FlashcardFiles ==
    {<<[topic |-> "SMART Goals", term |-> "Specific"]>>,
     <<[topic |-> "Sleep Science", term |-> "REM"],
       [topic |-> "HIPAA Basics", term |-> "PHI"],
       [topic |-> "SMART Goals", term |-> "Measurable"]>>}

FilesOf(script) == IF script = "import-flashcards" THEN FlashcardFiles ELSE QuestionFiles

KeepQuestions(c) == c

\* DELETE FROM question_options; DELETE FROM questions; DELETE FROM topics
ClearQuestions(c) == [c EXCEPT !.questions = <<>>, !.topics = {}]

\* DELETE FROM flashcards
ClearFlashcards(c) == [c EXCEPT !.flashcards = <<>>]

\* one row of the question file: the topic upsert, the question insert with the next
\* question_id, the option inserts
InsertQuestion(c, row, questionId) ==
    [c EXCEPT !.topics = @ \cup {row.topic},
              !.questions = Append(@, [question_id |-> questionId,
                                       topic_name |-> row.topic,
                                       options |-> OptionRows(row)])]

InsertEveryFlashcard(c, card) ==
    [c EXCEPT !.flashcards = Append(@, [topic_name |-> card.topic, term |-> card.term])]

\* one card of the flashcard file: skipped when topicMap has no id for its topic
InsertFlashcard(c, card) ==
    IF card.topic \in c.topics
    THEN [c EXCEPT !.flashcards = Append(@, [topic_name |-> card.topic, term |-> card.term])]
    ELSE c

Committed_(d, c) ==
    [d EXCEPT !.topics = c.topics, !.questions = c.questions, !.flashcards = c.flashcards]

\* node import-*.js with a non-empty CSV file
ImportStart(script, file) ==
    /\ run.pc \in {"idle", "done"}
    /\ run.runs < MaxRuns
    /\ run' = [NoRun EXCEPT !.script = script, !.pc = "clear", !.file = file,
                            !.start = Catalog(db),
                            !.prev = [script |-> run.script, file |-> run.file,
                                      outcome |-> run.outcome],
                            !.acquired = 1,
                            !.runs = run.runs + 1]
    /\ UNCHANGED db
    /\ UNCHANGED submitVars
    /\ UNCHANGED quizVars
    /\ UNCHANGED <<trend, conc>>

ImportFailedKeepsBatch ==
    /\ run' = [run EXCEPT !.pc = "done", !.outcome = "failed", !.failedAt = run.pc,
                          !.work = NoCatalog, !.released = @ + 1]
    /\ db' = Committed_(db, run.work)

\* catch (e) { ROLLBACK; console.error } finally { release }
ImportFailed ==
    /\ run' = [run EXCEPT !.pc = "done", !.outcome = "failed", !.failedAt = run.pc,
                          !.work = NoCatalog, !.released = @ + 1]
    /\ UNCHANGED db

\* BEGIN and the DELETEs.  The batched importer commits them at once and opens the
\* transaction of its first batch; the other two stay in the transaction they opened.
ImportClear(ok) ==
    /\ run.pc = "clear"
    /\ IF ~ok THEN ImportFailed
       ELSE IF run.script = "import-questions"
       THEN /\ db' = Committed_(db, ClearQuestions(Catalog(db)))
            /\ run' = [run EXCEPT !.pc = "row", !.work = ClearQuestions(Catalog(db))]
       ELSE IF run.script = "part_001"
       THEN /\ run' = [run EXCEPT !.pc = "row", !.work = ClearQuestions(Catalog(db))]
            /\ UNCHANGED db
       ELSE /\ run' = [run EXCEPT !.pc = "row", !.work = ClearFlashcards(Catalog(db))]
            /\ UNCHANGED db
    /\ UNCHANGED submitVars
    /\ UNCHANGED quizVars
    /\ UNCHANGED <<trend, conc>>

\* the body of the loop for the row file[next]; the SERIAL counter is advanced
\* outside the transaction
ImportRow(ok) ==
    /\ run.pc = "row"
    /\ LET row == run.file[run.next]
           last == run.next = Len(run.file)
           endOfBatch == run.script = "import-questions" /\ run.next % BatchSize = 0
           after == [run EXCEPT !.next = @ + 1,
                                !.pc = IF last \/ endOfBatch THEN "commit" ELSE "row"]
       IN
       IF run.script = "import-flashcards"
       THEN IF ok \/ row.topic \notin run.work.topics
            THEN /\ run' = [after EXCEPT !.work = InsertFlashcard(run.work, row)]
                 /\ UNCHANGED db
            ELSE ImportFailed
       ELSE IF ok
            THEN /\ db' = [db EXCEPT !.question_seq = @ + 1]
                 /\ run' = [after EXCEPT
                              !.work = InsertQuestion(run.work, row, db.question_seq + 1)]
            ELSE ImportFailed
    /\ UNCHANGED submitVars
    /\ UNCHANGED quizVars
    /\ UNCHANGED <<trend, conc>>

\* COMMIT: of the run, or of a batch, followed by the BEGIN of the next batch
ImportCommit(ok) ==
    /\ run.pc = "commit"
    /\ IF ok
       THEN /\ db' = Committed_(db, run.work)
            /\ run' = IF run.next > Len(run.file)
                      THEN [run EXCEPT !.pc = "done", !.outcome = "committed",
                                       !.work = NoCatalog, !.released = @ + 1]
                      ELSE [run EXCEPT !.pc = "row"]
       ELSE ImportFailed
    /\ UNCHANGED submitVars
    /\ UNCHANGED quizVars
    /\ UNCHANGED <<trend, conc>>

ImportStep ==
    \E ok \in BOOLEAN :
        \/ ImportClear(ok)
        \/ ImportRow(ok)
        \/ ImportCommit(ok)

-----------------------------------------------------------------------------
(* Concurrent request handlers.  Each handler runs on its own client; the store
   is PostgreSQL at its default isolation level (READ COMMITTED): a statement
   reads the rows committed when it starts, an UPDATE locks the row it changes
   until its transaction ends, and a second UPDATE of that row waits for the
   lock and then works on the committed row. *)

Procs == {1, 2}

NoHandler ==
    [op |-> "", pc |-> "idle", req |-> NoReq, local |-> NoLocal, tx |-> NoTx,
     email |-> "",       \* register: req.body.email
     ins |-> [users |-> {}, topics |-> {}],   \* register: the email inserted into users
                         \* and the topics given a mastery row, not yet committed
     res |-> 0,
     acquired |-> 0,     \* clients this request got from pool.connect()
     released |-> 0,     \* calls of client.release() by this request
     order |-> 0,        \* position of its COMMIT among the commits (history)
     overlap |-> FALSE]  \* another request was in flight while it ran (history)

InFlight(p) == conc[p].pc \notin {"idle", "done"}

StatsLockNotHeld(q, userId) == FALSE

\* q's open transaction has updated the user_stats row of userId
HoldsStatsLock(q, userId) ==
    /\ InFlight(q)
    /\ conc[q].tx.points # <<>>
    /\ conc[q].tx.points[1].user_id = userId
    /\ userId \in DOMAIN db.user_stats

\* q's open transaction has updated the user_mastery row of (userId, topic)
HoldsMasteryLock(q, userId, topic) ==
    /\ InFlight(q)
    /\ conc[q].tx.mastery # <<>>
    /\ conc[q].tx.mastery[1].user_id = userId
    /\ conc[q].tx.mastery[1].topic_name = topic
    /\ MasteryRows(db, userId, topic) # {}

ConcUnchanged ==
    /\ UNCHANGED <<pc, req, local, tx, res, before, auth>>
    /\ UNCHANGED quizVars
    /\ UNCHANGED <<trend, run>>

ConcSubmitRequest(p, userId, topic, correctAnswers, totalQuestions) ==
    /\ ~InFlight(p)
    /\ budget > 0
    /\ userId \in DOMAIN db.users
    /\ budget' = budget - 1
    /\ conc' = [q \in Procs |->
                  IF q = p
                  THEN [NoHandler EXCEPT
                            !.op = "submit", !.pc = "connect",
                            !.req = [userId |-> userId, topic |-> topic,
                                     correctAnswers |-> correctAnswers,
                                     totalQuestions |-> totalQuestions],
                            !.local = [NoLocal EXCEPT
                                          !.score = score(correctAnswers, totalQuestions)],
                            !.overlap = \E o \in Procs \ {p} : InFlight(o)]
                  ELSE [conc[q] EXCEPT !.overlap = @ \/ InFlight(q)]]
    /\ UNCHANGED db
    /\ ConcUnchanged

ConcFailedKeepsClient(p, step) ==
    /\ conc' = [conc EXCEPT ![p].pc = "done", ![p].res = 500, ![p].tx = NoTx,
                            ![p].ins = NoHandler.ins,
                            ![p].local.failedAt = step]
    /\ UNCHANGED db

\* catch { ROLLBACK; answer 500 } finally { client.release() }
ConcFailed(p, step) ==
    /\ conc' = [conc EXCEPT ![p].pc = "done", ![p].res = 500, ![p].tx = NoTx,
                            ![p].ins = NoHandler.ins,
                            ![p].local.failedAt = step,
                            ![p].released = @ + 1]
    /\ UNCHANGED db

\* const client = await pool.connect();  (before the try block)
ConcConnect(p, ok) ==
    /\ conc[p].op = "submit"
    /\ conc[p].pc = "connect"
    /\ conc' = IF ok
               THEN [conc EXCEPT ![p].pc = "begin", ![p].acquired = @ + 1]
               ELSE [conc EXCEPT ![p].pc = "done", ![p].local.failedAt = "connect"]
    /\ UNCHANGED <<db, budget>>
    /\ ConcUnchanged

ConcBegin(p, ok) ==
    /\ conc[p].op = "submit"
    /\ conc[p].pc = "begin"
    /\ IF ok
       THEN conc' = [conc EXCEPT ![p].pc = "points"] /\ UNCHANGED db
       ELSE ConcFailed(p, "begin")
    /\ UNCHANGED budget
    /\ ConcUnchanged

ConcUpdatePointsNoLock(p, ok) ==
    /\ conc[p].op = "submit"
    /\ conc[p].pc = "points"
    /\ IF ok
       THEN LET earned == pointsEarned(conc[p].req.correctAnswers, conc[p].local.score) IN
            /\ conc' = [conc EXCEPT
                          ![p].local.pointsEarned = earned,
                          ![p].tx.points =
                              <<[user_id |-> conc[p].req.userId,
                                 points |-> PointsAfter(db, conc[p].req.userId, earned)]>>,
                          ![p].pc = "select"]
            /\ UNCHANGED db
       ELSE ConcFailed(p, "points")
    /\ UNCHANGED budget
    /\ ConcUnchanged

\* UPDATE user_stats SET points = points + $1 WHERE user_id = $2: waits while another
\* transaction holds the lock of the row
ConcUpdatePoints(p, ok) ==
    /\ conc[p].op = "submit"
    /\ conc[p].pc = "points"
    /\ \A q \in Procs \ {p} : ~HoldsStatsLock(q, conc[p].req.userId)
    /\ IF ok
       THEN LET earned == pointsEarned(conc[p].req.correctAnswers, conc[p].local.score) IN
            /\ conc' = [conc EXCEPT
                          ![p].local.pointsEarned = earned,
                          ![p].tx.points =
                              <<[user_id |-> conc[p].req.userId,
                                 points |-> PointsAfter(db, conc[p].req.userId, earned)]>>,
                          ![p].pc = "select"]
            /\ UNCHANGED db
       ELSE ConcFailed(p, "points")
    /\ UNCHANGED budget
    /\ ConcUnchanged

\* the SELECT reads the committed row
ConcSelectMastery(p, ok) ==
    /\ conc[p].op = "submit"
    /\ conc[p].pc = "select"
    /\ IF ok
       THEN LET rows == MasteryRows(db, conc[p].req.userId, conc[p].req.topic)
                current == IF rows = {} THEN 0
                           ELSE (CHOOSE r \in rows : TRUE).mastery_score
            IN
            /\ conc' = [conc EXCEPT
                          ![p].local.currentMastery = current,
                          ![p].local.newMastery = newMastery(current, conc[p].local.score),
                          ![p].pc = "update"]
            /\ UNCHANGED db
       ELSE ConcFailed(p, "select")
    /\ UNCHANGED budget
    /\ ConcUnchanged

ConcUpdateMastery(p, ok) ==
    /\ conc[p].op = "submit"
    /\ conc[p].pc = "update"
    /\ \A q \in Procs \ {p} : ~HoldsMasteryLock(q, conc[p].req.userId, conc[p].req.topic)
    /\ IF ok /\ conc[p].local.newMastery.kind = "num"
       THEN /\ conc' = [conc EXCEPT
                          ![p].tx.mastery =
                              <<[user_id |-> conc[p].req.userId,
                                 topic_name |-> conc[p].req.topic,
                                 mastery_score |-> conc[p].local.newMastery.num]>>,
                          ![p].pc = "insert"]
            /\ UNCHANGED db
       ELSE ConcFailed(p, "update")
    /\ UNCHANGED budget
    /\ ConcUnchanged

ConcInsertHistory(p, ok) ==
    /\ conc[p].op = "submit"
    /\ conc[p].pc = "insert"
    /\ IF ok
       THEN /\ conc' = [conc EXCEPT
                          ![p].tx.history =
                              <<[user_id |-> conc[p].req.userId,
                                 topic_name |-> conc[p].req.topic,
                                 mastery_score |-> conc[p].local.newMastery.num]>>,
                          ![p].pc = "commit"]
            /\ UNCHANGED db
       ELSE ConcFailed(p, "insert")
    /\ UNCHANGED budget
    /\ ConcUnchanged

\* COMMIT, the answer 200, and client.release() in the finally block
ConcCommit(p, ok) ==
    /\ conc[p].op = "submit"
    /\ conc[p].pc = "commit"
    /\ IF ok
       THEN /\ db' = Apply(db, conc[p].tx)
            /\ conc' = [conc EXCEPT ![p].pc = "done", ![p].res = 200, ![p].tx = NoTx,
                                    ![p].released = @ + 1,
                                    ![p].order = Len(db.user_mastery_history) + 1]
       ELSE ConcFailed(p, "commit")
    /\ UNCHANGED budget
    /\ ConcUnchanged

ConcSubmitStep(p) ==
    \E ok \in BOOLEAN :
        \/ ConcConnect(p, ok)
        \/ ConcBegin(p, ok)
        \/ ConcUpdatePoints(p, ok)
        \/ ConcSelectMastery(p, ok)
        \/ ConcUpdateMastery(p, ok)
        \/ ConcInsertHistory(p, ok)
        \/ ConcCommit(p, ok)

\* POST /api/auth/register (topics-table variant), concurrent.  users.email is
\* UNIQUE: an INSERT of an email that another open transaction has inserted waits for
\* that transaction, and fails when the email is committed.  The model numbers the
\* users in commit order; user_id is only used as a key.

ConcRegisterRequest(p, email) ==
    /\ ~InFlight(p)
    /\ budget > 0
    /\ budget' = budget - 1
    /\ conc' = [q \in Procs |->
                  IF q = p
                  THEN [NoHandler EXCEPT !.op = "register", !.pc = "check",
                                         !.email = email,
                                         !.overlap = \E o \in Procs \ {p} : InFlight(o)]
                  ELSE [conc[q] EXCEPT !.overlap = @ \/ InFlight(q)]]
    /\ UNCHANGED db
    /\ ConcUnchanged

\* pool.query('SELECT * FROM users WHERE email = $1'): 409 if a committed row exists
ConcRegisterCheck(p, ok) ==
    /\ conc[p].op = "register"
    /\ conc[p].pc = "check"
    /\ conc' = IF ~ok
               THEN [conc EXCEPT ![p].pc = "done", ![p].res = 500,
                                 ![p].local.failedAt = "check"]
               ELSE IF conc[p].email \in Range(db.users)
               THEN [conc EXCEPT ![p].pc = "done", ![p].res = 409]
               ELSE [conc EXCEPT ![p].pc = "connect"]
    /\ UNCHANGED <<db, budget>>
    /\ ConcUnchanged

\* pool.connect() inside the outer try
ConcRegisterConnect(p, ok) ==
    /\ conc[p].op = "register"
    /\ conc[p].pc = "connect"
    /\ conc' = IF ok
               THEN [conc EXCEPT ![p].pc = "insert", ![p].acquired = @ + 1]
               ELSE [conc EXCEPT ![p].pc = "done", ![p].res = 500,
                                 ![p].local.failedAt = "connect"]
    /\ UNCHANGED <<db, budget>>
    /\ ConcUnchanged

\* BEGIN; INSERT INTO users
ConcRegisterInsert(p, ok) ==
    /\ conc[p].op = "register"
    /\ conc[p].pc = "insert"
    /\ \A q \in Procs \ {p} : ~(InFlight(q) /\ conc[p].email \in conc[q].ins.users)
    /\ IF ~ok THEN ConcFailed(p, "insert")
       ELSE IF conc[p].email \in Range(db.users)
       THEN ConcFailed(p, "unique")      \* duplicate key value violates unique constraint
       ELSE /\ conc' = [conc EXCEPT ![p].ins.users = {conc[p].email}, ![p].pc = "rows"]
            /\ UNCHANGED db
    /\ UNCHANGED budget
    /\ ConcUnchanged

\* INSERT INTO user_stats; SELECT topic_name FROM topics; INSERT INTO user_mastery per row
ConcRegisterRows(p, ok) ==
    /\ conc[p].op = "register"
    /\ conc[p].pc = "rows"
    /\ IF ok
       THEN /\ conc' = [conc EXCEPT ![p].ins.topics = db.topics, ![p].pc = "commit"]
            /\ UNCHANGED db
       ELSE ConcFailed(p, "rows")
    /\ UNCHANGED budget
    /\ ConcUnchanged

\* COMMIT, 201, client.release()
ConcRegisterCommit(p, ok) ==
    /\ conc[p].op = "register"
    /\ conc[p].pc = "commit"
    /\ IF ok
       THEN LET userId == Len(db.users) + 1 IN
            /\ db' = [db EXCEPT
                        !.users = Append(@, conc[p].email),
                        !.user_stats = Append(@, 0),
                        !.user_mastery = @ \cup
                            {[user_id |-> userId, topic_name |-> n, mastery_score |-> 0]
                                : n \in conc[p].ins.topics}]
            /\ conc' = [conc EXCEPT ![p].pc = "done", ![p].res = 201,
                                    ![p].ins = NoHandler.ins,
                                    ![p].released = @ + 1]
       ELSE ConcFailed(p, "commit")
    /\ UNCHANGED budget
    /\ ConcUnchanged

ConcRegisterStep(p) ==
    \E ok \in BOOLEAN :
        \/ ConcRegisterCheck(p, ok)
        \/ ConcRegisterConnect(p, ok)
        \/ ConcRegisterInsert(p, ok)
        \/ ConcRegisterRows(p, ok)
        \/ ConcRegisterCommit(p, ok)

-----------------------------------------------------------------------------
(* Specifications *)

InitHandler ==
    /\ pc = "idle"
    /\ req = NoReq
    /\ local = NoLocal
    /\ tx = NoTx
    /\ res = 0

InitQuiz ==
    /\ contentDB = ContentLibrary
    /\ quiz = NoQuiz
    /\ trend = NoTrend
    /\ auth = NoAuth
    /\ run = NoRun
    /\ conc = [p \in Procs |-> NoHandler]

\* the store after the importer has created one topic; nobody has registered yet
Init ==
    /\ db = [EmptyDb EXCEPT !.topics = {"SMART Goals"}]
    /\ before = db
    /\ budget = MaxSubmits
    /\ InitHandler
    /\ InitQuiz

\* <<correctAnswers, totalQuestions>> of the requests issued under Spec: a negative
\* count, 0/0, a zero score, a division by zero, two perfect runs, a half score,
\* more correct answers than questions
Submissions ==
    {<<0 - 1, 1>>, <<0 - 1, 0>>, <<0, 0>>, <<0, 1>>, <<1, 0>>, <<1, 1>>, <<1, 2>>,
     <<2, 2>>, <<2, 1>>}

UserIds == 1 .. Cardinality(Emails)

Next ==
    \/ \E email \in Emails : Register(email)
    \/ \E userId \in UserIds, topic \in TopicNames, s \in Submissions :
            SubmitRequest(userId, topic, s[1], s[2])
    \/ SubmitStep

Spec == Init /\ [][Next]_vars

\* One user with a mastery record of any score in [0,100] on one topic, and one
\* submit request with any counts in -1 .. MaxTotal + 1
InitScore ==
    /\ \E m \in 0 .. 100 :
        db = [EmptyDb EXCEPT
                !.users = <<"a@example.org">>,
                !.user_stats = <<0>>,
                !.user_mastery = {[user_id |-> 1, topic_name |-> "SMART Goals",
                                   mastery_score |-> m]},
                !.topics = {"SMART Goals"}]
    /\ before = db
    /\ budget = 1
    /\ InitHandler
    /\ InitQuiz

NextScore ==
    \/ \E topic \in TopicNames, c \in (0 - 1) .. (MaxTotal + 1), t \in (0 - 1) .. MaxTotal :
            SubmitRequest(1, topic, c, t)
    \/ SubmitStep

SpecScore == InitScore /\ [][NextScore]_vars

\* Two registered users, one of them with a mastery record; submissions, trend
\* requests and quiz requests in any order
InitTrend ==
    /\ db = [EmptyDb EXCEPT
                !.users = <<"a@example.org", "b@example.org">>,
                !.user_stats = <<0, 0>>,
                !.user_mastery = {[user_id |-> 1, topic_name |-> "SMART Goals",
                                   mastery_score |-> 0]},
                !.topics = {"SMART Goals"}]
    /\ before = db
    /\ budget = MaxSubmits
    /\ InitHandler
    /\ InitQuiz

NextTrend ==
    \/ \E userId \in UserIds, topic \in TopicNames, s \in {<<1, 1>>, <<1, 2>>} :
            SubmitRequest(userId, topic, s[1], s[2])
    \/ SubmitStep
    \/ \E userId \in UserIds, topic \in TopicNames \cup {""}, ok \in BOOLEAN :
            MasteryTrend(userId, topic, ok)
    \/ GenerateQuiz("SMART Goals", 0)
    \/ GenerateQuizV3("SMART Goals", 0, TRUE)

SpecTrend == InitTrend /\ [][NextTrend]_vars

\* the requested durations: those on either side of each whole number of 1.5 minutes
Durations == {d \in 0 .. MaxDuration : d % 15 \in {0, 14}}

\* The servers with a built-in library: quiz requests for any topic and duration
NextQuiz ==
    \E topic \in QuizTopics, duration \in Durations : GenerateQuiz(topic, duration)

SpecQuiz == Init /\ [][NextQuiz]_vars

InitQuizDb ==
    /\ db = EmptyDb
    /\ before = db
    /\ budget = 0
    /\ InitHandler
    /\ InitQuiz

\* The database-backed server (V3) and the importer that fills its catalog
NextQuizDb ==
    \/ \E file \in CsvFiles : ImportQuestions(file)
    \/ \E topic \in TopicNames, duration \in Durations, ok \in BOOLEAN :
            GenerateQuizV3(topic, duration, ok)

SpecQuizDb == InitQuizDb /\ [][NextQuizDb]_vars

\* Registration by each server version against a catalog the importer fills
NextRegister ==
    \/ \E file \in CsvFiles : ImportQuestions(file)
    \/ \E email \in Emails : Register(email)
    \/ \E email \in Emails : RegisterV1(email)
    \/ \E email \in Emails : RegisterV3(email)

SpecRegister == InitQuizDb /\ [][NextRegister]_vars

\* The question importers, run one after the other on an empty store
NextImport ==
    \/ \E script \in {"part_001", "import-questions"}, file \in QuestionFiles :
            ImportStart(script, file)
    \/ ImportStep

SpecImport == InitQuizDb /\ [][NextImport]_vars

\* The flashcard importer, run on a catalog whose topics a question import created
InitFlashcards ==
    /\ \E topics \in {{"SMART Goals"}, {"SMART Goals", "Sleep Science"}} :
            db = [EmptyDb EXCEPT !.topics = topics]
    /\ before = db
    /\ budget = 0
    /\ InitHandler
    /\ InitQuiz

NextFlashcards ==
    \/ \E file \in FlashcardFiles : ImportStart("import-flashcards", file)
    \/ ImportStep

SpecFlashcards == InitFlashcards /\ [][NextFlashcards]_vars

\* Two registered users, the first with a mastery record on 'SMART Goals', and
\* submissions that overlap in any way the row locks allow
InitConcurrent ==
    /\ db = [EmptyDb EXCEPT
                !.users = <<"a@example.org", "b@example.org">>,
                !.user_stats = <<0, 0>>,
                !.user_mastery = {[user_id |-> 1, topic_name |-> "SMART Goals",
                                   mastery_score |-> 0]},
                !.topics = {"SMART Goals"}]
    /\ before = db
    /\ budget = MaxSubmits
    /\ InitHandler
    /\ InitQuiz

NextConcurrent ==
    \/ \E p \in Procs, userId \in UserIds, topic \in TopicNames,
            s \in {<<1, 1>>, <<1, 2>>} :
            ConcSubmitRequest(p, userId, topic, s[1], s[2])
    \/ \E p \in Procs : ConcSubmitStep(p)

SpecConcurrent == InitConcurrent /\ [][NextConcurrent]_vars

\* Registration requests that overlap in any way the unique index allows
InitConcurrentRegister ==
    /\ db = [EmptyDb EXCEPT !.topics = {"SMART Goals", "Sleep Science"}]
    /\ before = db
    /\ budget = MaxSubmits
    /\ InitHandler
    /\ InitQuiz

NextConcurrentRegister ==
    \/ \E p \in Procs, email \in Emails : ConcRegisterRequest(p, email)
    \/ \E p \in Procs : ConcRegisterStep(p)

SpecConcurrentRegister == InitConcurrentRegister /\ [][NextConcurrentRegister]_vars

\* Submissions, registrations and one run of the batched importer, side by side
InitClients ==
    /\ db = [EmptyDb EXCEPT
                !.users = <<"a@example.org">>,
                !.user_stats = <<0>>,
                !.user_mastery = {[user_id |-> 1, topic_name |-> "SMART Goals",
                                   mastery_score |-> 0]},
                !.topics = {"SMART Goals"}]
    /\ before = db
    /\ budget = MaxSubmits
    /\ InitHandler
    /\ InitQuiz

NextClients ==
    \/ \E p \in Procs : ConcSubmitRequest(p, 1, "SMART Goals", 1, 1)
    \/ \E p \in Procs : ConcSubmitStep(p)
    \/ \E p \in Procs : ConcRegisterRequest(p, "b@example.org")
    \/ \E p \in Procs : ConcRegisterStep(p)
    \/ run.runs = 0 /\ ImportStart("import-questions", <<WellFormedRow, EmptyColumnRow>>)
    \/ ImportStep

SpecClients == InitClients /\ [][NextClients]_vars

\* The data routes called with every kind of token
Tokens == {NoToken} \cup {[kind |-> k, userId |-> u] : k \in {"signed", "forged"},
                                                        u \in UserIds}

InitAuth ==
    /\ db = [EmptyDb EXCEPT
                !.users = <<"a@example.org", "b@example.org">>,
                !.user_stats = <<0, 0>>,
                !.user_mastery = {[user_id |-> 1, topic_name |-> "SMART Goals",
                                   mastery_score |-> 0],
                                  [user_id |-> 2, topic_name |-> "SMART Goals",
                                   mastery_score |-> 0]},
                !.topics = {"SMART Goals"}]
    /\ before = db
    /\ budget = MaxSubmits
    /\ InitHandler
    /\ InitQuiz

NextAuth ==
    \/ \E route \in {"submit", "trend"}, token \in Tokens : Authenticate(route, token)
    \/ \E s \in {<<1, 1>>, <<1, 2>>} : AuthSubmitRequest("SMART Goals", s[1], s[2])
    \/ SubmitStep
    \/ \E topic \in {"SMART Goals", ""}, ok \in BOOLEAN : AuthMasteryTrend(topic, ok)

SpecAuth == InitAuth /\ [][NextAuth]_vars

-----------------------------------------------------------------------------
(* Properties of the quiz generators *)

Answered == quiz.status # 0

QuizIds == [i \in DOMAIN quiz.body |-> quiz.body[i].id]

\* C1: every quiz handler asks for exactly max(3, floor(d / 1.5)) questions for a
\* duration d >= 0 (here d in tenths of a minute: n = 3 below 6 minutes, else the n
\* with 1.5*n <= d < 1.5*(n+1)), never fewer than 3.
C1_QuestionCount ==
    Answered =>
        /\ quiz.numQuestions >= 3
        /\ \/ quiz.numQuestions = 3 /\ quiz.duration < 60
           \/ /\ 15 * quiz.numQuestions <= quiz.duration
              /\ quiz.duration < 15 * (quiz.numQuestions + 1)

\* C2: unless the store itself failed, a quiz request for a topic with k questions
\* and a requested count n is answered with exactly min(k, n) questions, with
\* pairwise distinct ids, all of that topic; with k = 0 (also for an unknown topic
\* name) the answer is the empty sequence, not an error.
C2_QuizSelection ==
    (Answered /\ ~quiz.fault) =>
        /\ quiz.status = 200
        /\ Len(quiz.body) = Min(Cardinality(quiz.pool), quiz.numQuestions)
        /\ \A i, j \in DOMAIN QuizIds : i # j => QuizIds[i] # QuizIds[j]
        /\ \A i \in DOMAIN QuizIds : QuizIds[i] \in quiz.pool

\* C15: no quiz request changes the catalog: the stored tables and the content
\* library, the order of each topic's question list included, stay what they were.
C15_QuizReadOnly ==
    [][quiz' # quiz =>
          /\ db' = db
          /\ \A topic \in DOMAIN contentDB : contentDB'[topic] = contentDB[topic]]_vars

\* a question with exactly one option marked correct
WellFormed(q) ==
    Cardinality({j \in DOMAIN q.options : q.options[j].is_correct}) = 1

\* C16: unless the store fails, a quiz request to the database-backed server is
\* answered 200 with min(n, w) questions, w the number of well-formed questions of the
\* topic, every one of them well formed: a malformed question is left out and does not
\* fail the request.
C16_MalformedSkipped ==
    [][(quiz' # quiz /\ quiz'.handler = "V3" /\ ~quiz'.fault) =>
          LET good == {q \in Range(TopicQuestions(quiz'.topic)) : WellFormed(q)} IN
          /\ quiz'.status = 200
          /\ Len(quiz'.body) = Min(quiz'.numQuestions, Cardinality(good))
          /\ \A i \in DOMAIN quiz'.body :
                \E q \in good : q.question_id = quiz'.body[i].id]_vars

\* a generate request can answer with question `id` and its options in the order o
CanSend(id, o) ==
    \E k \in DOMAIN quiz'.body : quiz'.body[k].id = id /\ quiz'.body[k].options = o

\* every ordering of the option texts of a well-formed stored question can be sent
\* by the database-backed server
StoredOptionOrderPossible ==
    \A i \in DOMAIN db.questions :
          LET q == db.questions[i]
              texts == [j \in DOMAIN q.options |-> q.options[j].option_text]
          IN  (Len(q.options) >= 2 /\ WellFormed(q)) =>
              \A o \in Shuffles(texts) :
                  ENABLED (GenerateQuizV3(q.topic_name, 0, TRUE) /\ CanSend(q.question_id, o))

\* C17: in every state, for every question with at least two options that a generate
\* request can return (a library question, or a well-formed stored question), every
\* ordering of its stored option texts is a possible content of the option list sent
\* by the next request that returns it.
C17_EveryOptionOrderPossible ==
    /\ \A topic \in DOMAIN contentDB : \A i \in DOMAIN contentDB[topic] :
          LET q == contentDB[topic][i] IN
          Len(q.options) >= 2 =>
              \A o \in Shuffles(q.options) :
                  ENABLED (GenerateQuiz(topic, MaxDuration) /\ CanSend(q.id, o))
    /\ StoredOptionOrderPossible

-----------------------------------------------------------------------------
(* Properties of the submission scorer *)

\* the precondition of submit: 0 <= correctAnswers <= totalQuestions, totalQuestions > 0
Valid(r) ==
    /\ 0 <= r.correctAnswers
    /\ r.correctAnswers <= r.totalQuestions
    /\ r.totalQuestions > 0

Finished == pc = "done"
Committed == pc = "done" /\ res = 200

\* the rows of the store owned by one user
Own(d, userId) ==
    [points |-> d.user_stats[userId],
     mastery |-> {r \in d.user_mastery : r.user_id = userId},
     history |-> SelectSeq(d.user_mastery_history, LAMBDA r : r.user_id = userId)]

\* the mastery the handler reads for the request: the stored score, 0 without a record
StoredOrZero(d, userId, topic) ==
    IF MasteryRows(d, userId, topic) = {} THEN 0
    ELSE (CHOOSE r \in MasteryRows(d, userId, topic) : TRUE).mastery_score

LastHistory == db.user_mastery_history[Len(db.user_mastery_history)]

\* C3: a committed submission with 0 <= correct <= total, total > 0 adds exactly
\* correct*10 + (50 if correct = total, else 0) to the user's points.
C3_PointsAwarded ==
    (Committed /\ Valid(req)) =>
        db.user_stats[req.userId] - before.user_stats[req.userId]
            = req.correctAnswers * 10
              + (IF req.correctAnswers = req.totalQuestions THEN 50 ELSE 0)

C3_Witness ==
    /\ Committed
    /\ Valid(req)
    /\ req.correctAnswers = req.totalQuestions
    /\ req.totalQuestions >= 2
    /\ db.user_stats[req.userId] = before.user_stats[req.userId] + req.correctAnswers * 10 + 50

\* C4: for a current mastery m in [0,100] and a valid submission, the mastery v that
\* submit computes (and records) is min(100, round(m + 20*correct/total)), the rounding
\* being to the nearest integer with ties upwards (v - 1/2 <= x < v + 1/2, scaled by
\* 2*total), and v >= m.
C4_MasteryComputed ==
    (Committed /\ Valid(req)) =>
        LET m == StoredOrZero(before, req.userId, req.topic)
            t == req.totalQuestions
            x2 == 2 * (m * t + 20 * req.correctAnswers)
            v == LastHistory.mastery_score
        IN  (m \in 0 .. 100) =>
                /\ v <= 100
                /\ 2 * v * t - t <= x2
                /\ (v < 100 => x2 < 2 * v * t + t)
                /\ v >= m

\* a tie: 20*correct/total lies exactly half way between two integers, below the cap
C4_Witness ==
    /\ Committed
    /\ Valid(req)
    /\ (40 * req.correctAnswers) % (2 * req.totalQuestions) = req.totalQuestions
    /\ LastHistory.mastery_score < 100
    /\ LastHistory.mastery_score > StoredOrZero(before, req.userId, req.topic)

\* C5: a submission that violates 0 <= correctAnswers <= totalQuestions, totalQuestions > 0
\* is rejected (any answer other than 200 is counted as the rejection) and leaves the
\* user's points, mastery records and mastery history as they were.
C5_InvalidRejected ==
    (Finished /\ ~Valid(req)) =>
        /\ res # 200
        /\ Own(db, req.userId) = Own(before, req.userId)

\* C6: when the handler has finished, the committed store shows either none of the
\* points update, the mastery update and the history row (a store step failed), or all
\* three (it answered 200); the mastery update being that of the user's record for the
\* topic, where there is one.
C6_AllOrNothing ==
    Finished =>
        LET u == req.userId
            new == [user_id |-> u, topic_name |-> req.topic,
                    mastery_score |-> local.newMastery.num]
        IN  IF res = 200
            THEN /\ Own(db, u).points = Own(before, u).points + local.pointsEarned
                 /\ MasteryRows(db, u, req.topic) =
                        (IF MasteryRows(before, u, req.topic) = {} THEN {} ELSE {new})
                 /\ \A r \in Own(before, u).mastery :
                        r.topic_name # req.topic => r \in Own(db, u).mastery
                 /\ Own(db, u).history = Append(Own(before, u).history, new)
            ELSE Own(db, u) = Own(before, u)

\* COMMIT failed after the three statements had run on a user with a mastery record
C6_Witness ==
    /\ Finished
    /\ res = 500
    /\ local.failedAt = "commit"
    /\ local.pointsEarned > 0
    /\ MasteryRows(before, req.userId, req.topic) # {}
    /\ local.newMastery.num # StoredOrZero(before, req.userId, req.topic)

\* C7: every stored mastery score is an integer in [0,100].
C7_MasteryInRange ==
    \A r \in db.user_mastery : r.mastery_score \in 0 .. 100

\* C8: the stored mastery of a (user, topic) pair never decreases and never resets
\* (its record stays), and one step raises it by at most 20.
C8_MasteryMonotone ==
    [][\A r \in db.user_mastery :
          /\ MasteryRows(db', r.user_id, r.topic_name) # {}
          /\ \A n \in MasteryRows(db', r.user_id, r.topic_name) :
                /\ n.mastery_score >= r.mastery_score
                /\ n.mastery_score - r.mastery_score <= 20]_vars

\* C9: a user's stored points never decrease.
C9_PointsMonotone ==
    [][\A u \in DOMAIN db.user_stats : db'.user_stats[u] >= db.user_stats[u]]_vars

\* C10: every committed perfect-score submission (correct = total > 0) leaves the stored
\* mastery of (user, topic) at 100 or strictly above what it was, so that repeating it
\* brings the stored mastery to 100, and it leaves a stored 100 at 100.
C10_PerfectConverges ==
    [][(/\ pc = "commit" /\ pc' = "done" /\ res' = 200
        /\ req.correctAnswers = req.totalQuestions /\ req.totalQuestions > 0)
       => /\ MasteryRows(db', req.userId, req.topic) # {}
          /\ \A n \in MasteryRows(db', req.userId, req.topic) :
                \/ n.mastery_score = 100
                \/ /\ MasteryRows(db, req.userId, req.topic) # {}
                   /\ n.mastery_score > StoredOrZero(db, req.userId, req.topic)
                   /\ StoredOrZero(db, req.userId, req.topic) # 100]_vars

\* C12: after a valid submission has committed for a (user, topic) that had no mastery
\* record, the store holds a record for the pair whose score v is min(100, round(0 +
\* 20*correct/total)) (v - 1/2 <= 20*correct/total < v + 1/2, scaled by 2*total).
C12_NoRecordDefaultsToZero ==
    (Committed /\ Valid(req) /\ MasteryRows(before, req.userId, req.topic) = {}) =>
        /\ local.currentMastery = 0
        /\ MasteryRows(db, req.userId, req.topic) # {}
        /\ \A r \in MasteryRows(db, req.userId, req.topic) :
              LET v == r.mastery_score
                  t == req.totalQuestions
              IN  /\ v <= 100
                  /\ 2 * v * t - t <= 40 * req.correctAnswers
                  /\ (v < 100 => 40 * req.correctAnswers < 2 * v * t + t)

-----------------------------------------------------------------------------
(* Properties of registration *)

\* C13: the step that registers a user leaves, for every topic of the catalog (the
\* topics table, on whose topics the database-backed server generates quizzes), exactly
\* one mastery record of the new user, with score 0.
C13_MasteryRecordPerTopic ==
    [][Len(db'.users) = Len(db.users) + 1 =>
          \A topic \in db.topics :
              MasteryRows(db', Len(db'.users), topic) =
                  {[user_id |-> Len(db'.users), topic_name |-> topic, mastery_score |-> 0]}]_vars

-----------------------------------------------------------------------------
(* Properties of the mastery history and of the trend *)

IsPrefix(s, t) == Len(s) <= Len(t) /\ SubSeq(t, 1, Len(s)) = s

\* the step in which an in-flight submission commits and answers 200
CommitStep == pc # "done" /\ pc' = "done" /\ res' = 200

\* C11: the step that commits a submission appends exactly one history row, for the
\* request's (user, topic), holding the mastery computed by the update (the stored
\* score after the commit where the user has a record for the topic); every other step
\* of submit, trend and quiz generation leaves the history as it is, so no existing
\* row is ever modified or deleted.
C11_HistoryAppendOnly ==
    [][/\ IsPrefix(db.user_mastery_history, db'.user_mastery_history)
       /\ IF CommitStep
          THEN /\ Len(db'.user_mastery_history) = Len(db.user_mastery_history) + 1
               /\ LET row == db'.user_mastery_history[Len(db'.user_mastery_history)] IN
                  /\ row.user_id = req.userId
                  /\ row.topic_name = req.topic
                  /\ row.mastery_score = local.newMastery.num
                  /\ \A r \in MasteryRows(db', req.userId, req.topic) :
                        r.mastery_score = row.mastery_score
          ELSE db'.user_mastery_history = db.user_mastery_history]_vars

\* a second submission has committed on a record it raised: the last row holds the
\* raised score, not the one read, and the first row is still there
C11_Witness ==
    /\ Committed
    /\ Len(db.user_mastery_history) = 2
    /\ LastHistory.mastery_score # local.currentMastery
    /\ LastHistory.mastery_score = StoredOrZero(db, req.userId, req.topic)
    /\ MasteryRows(db, req.userId, req.topic) # {}
    /\ db.user_mastery_history[1] = before.user_mastery_history[1]
    /\ quiz.status = 200
    /\ trend.status = 200

\* C14: a trend request writes nothing; without a topic it is answered 400 and the
\* store is not read; with a topic, unless the store fails, it is answered 200 with
\* exactly the history rows of that user and topic (each once, none of another user or
\* topic, none missing) in ascending recorded_at order, which is the empty sequence
\* when there is no such row.
C14_TrendExact ==
    [][trend' # trend =>
        LET h == db.user_mastery_history
            t == trend'
            Mine(i) == h[i].user_id = t.userId /\ h[i].topic_name = t.topic
        IN  /\ db' = db
            /\ IF t.topic = ""
               THEN t.status = 400 /\ ~t.queried /\ t.rows = <<>>
               ELSE ~t.fault =>
                    /\ t.status = 200
                    /\ \A k \in DOMAIN t.rows :
                          /\ t.rows[k].recorded_at \in DOMAIN h
                          /\ Mine(t.rows[k].recorded_at)
                          /\ t.rows[k].mastery_score = h[t.rows[k].recorded_at].mastery_score
                    /\ \A k, l \in DOMAIN t.rows :
                          k < l => t.rows[k].recorded_at < t.rows[l].recorded_at
                    /\ \A i \in DOMAIN h : Mine(i) => \E k \in DOMAIN t.rows :
                                                          t.rows[k].recorded_at = i
                    /\ ((\A i \in DOMAIN h : ~Mine(i)) => t.rows = <<>>)]_vars

\* a trend answered with the one row of its user while the history also holds a row
\* of the other user on the same topic
C14_Witness ==
    /\ trend.status = 200
    /\ Len(trend.rows) = 1
    /\ Len(db.user_mastery_history) = 2
    /\ \E i \in 1 .. 2 :
          /\ db.user_mastery_history[i].user_id # trend.userId
          /\ db.user_mastery_history[i].topic_name = trend.topic
          /\ trend.rows[1].recorded_at = 3 - i

-----------------------------------------------------------------------------
(* Properties of the importers *)

Ran == run.pc = "done"

\* C19: when a run has failed, the committed catalog (topics, questions with their
\* options, flashcards) is the one the run started from.
C19_FailedRunRollsBack ==
    (Ran /\ run.outcome = "failed") => Catalog(db) = run.start

\* a catalog without the generated keys: topics, questions with their options and
\* correct flags in insertion order, flashcards
Content(c) ==
    [topics |-> c.topics,
     questions |-> [i \in DOMAIN c.questions |->
                        [topic_name |-> c.questions[i].topic_name,
                         options |-> c.questions[i].options]],
     flashcards |-> c.flashcards]

\* this run and the run before it imported the same file, and both ran to their end
SameFileTwice ==
    /\ Ran
    /\ run.outcome = "committed"
    /\ run.prev.outcome = "committed"
    /\ run.prev.file = run.file

\* C20: after the second of two successive imports of the same file the catalog holds
\* the same topics, questions, options with the same correct flags and flashcards as
\* after the first, and every row of the file once: as many questions as rows and as
\* many flashcards as rows whose topic exists.
C20_ImportIdempotent ==
    SameFileTwice =>
        /\ Content(Catalog(db)) = Content(run.start)
        /\ IF run.script = "import-flashcards"
           THEN Len(db.flashcards) =
                    Cardinality({i \in DOMAIN run.file : run.file[i].topic \in db.topics})
           ELSE /\ Len(db.questions) = Len(run.file)
                /\ \A i \in DOMAIN run.file :
                      db.questions[i].topic_name = run.file[i].topic
                /\ \A i, j \in DOMAIN db.questions :
                      i # j => db.questions[i].question_id # db.questions[j].question_id

\* the batched importer has imported a file of several batches for the second time
C20_Witness ==
    /\ SameFileTwice
    /\ run.script = "import-questions"
    /\ run.prev.script = "import-questions"
    /\ Len(run.file) >= 2
    /\ Len(run.start.questions) = Len(run.file)
    /\ db.questions[1].question_id > Len(run.file)

\* C18: every question of the committed catalog has exactly one option with
\* is_correct = true.
C18_ExactlyOneCorrect ==
    \A i \in DOMAIN db.questions : WellFormed(db.questions[i])

\* C23: when the batched importer has failed in one of its batches, the catalog holds
\* the rows of the batches before it, in file order, and nothing else: no row of the
\* failing batch and no row of a later batch.
C23_BatchesIndependent ==
    (/\ Ran
     /\ run.script = "import-questions"
     /\ run.outcome = "failed"
     /\ run.failedAt \in {"row", "commit"})
    => LET processed == IF run.failedAt = "row" THEN run.next - 1 ELSE run.next - 2
           kept == (processed \div BatchSize) * BatchSize
       IN  /\ Len(db.questions) = kept
           /\ \A i \in 1 .. kept :
                 /\ db.questions[i].topic_name = run.file[i].topic
                 /\ db.questions[i].options = OptionRows(run.file[i])

\* the third batch failed at one of its inserts; the first two are committed
C23_Witness ==
    /\ Ran
    /\ run.script = "import-questions"
    /\ run.outcome = "failed"
    /\ run.failedAt = "row"
    /\ Len(run.file) = 3
    /\ run.next = 3
    /\ Len(db.questions) = 2
    /\ run.start.questions # <<>>

\* the cards of a flashcard file whose topic is one of `topics`, in file order
Resolved(file, topics) == SelectSeq(file, LAMBDA card : card.topic \in topics)

-----------------------------------------------------------------------------
(* Properties of concurrent requests *)

ConcCommitted(p) == conc[p].op = "submit" /\ conc[p].pc = "done" /\ conc[p].res = 200

\* the position of the last history row of (userId, topic), 0 if there is none; by C11
\* it is the row of the submission on the pair that committed last
LastRowAt(userId, topic) ==
    LET at == {i \in DOMAIN db.user_mastery_history :
                  /\ db.user_mastery_history[i].user_id = userId
                  /\ db.user_mastery_history[i].topic_name = topic}
    IN  IF at = {} THEN 0 ELSE CHOOSE i \in at : \A j \in at : j <= i

\* C22: the mastery stored for a (user, topic) with a record is the value written by
\* the submission on that pair that committed last, however the submissions
\* overlapped.
C22_LastCommitWins ==
    \A p \in Procs :
        (/\ ConcCommitted(p)
         /\ conc[p].order = LastRowAt(conc[p].req.userId, conc[p].req.topic)
         /\ MasteryRows(db, conc[p].req.userId, conc[p].req.topic) # {})
        => \A r \in MasteryRows(db, conc[p].req.userId, conc[p].req.topic) :
              r.mastery_score = conc[p].local.newMastery.num

\* two overlapping submissions on the same record have both committed; the record
\* holds the value of the second to commit, which differs from the first's
C22_Witness ==
    /\ \A p \in Procs :
          /\ ConcCommitted(p)
          /\ conc[p].overlap
          /\ conc[p].req.userId = 1
          /\ conc[p].req.topic = "SMART Goals"
    /\ conc[1].order = 2
    /\ conc[2].order = 1
    /\ conc[1].local.newMastery # conc[2].local.newMastery
    /\ StoredOrZero(db, 1, "SMART Goals") = conc[1].local.newMastery.num

\* C24: a request handler and an import run never hold more than one client, never
\* release a client they do not hold, and have released the client they got once they
\* have ended, on the path that answers 200 or 201 as on every path where a store call
\* throws: when nothing is in flight no client is checked out.
CheckedOut(h) == h.acquired - h.released

C24_ClientReleasedOnce ==
    /\ \A p \in Procs :
          /\ CheckedOut(conc[p]) \in {0, 1}
          /\ conc[p].acquired <= 1
          /\ ~InFlight(p) => CheckedOut(conc[p]) = 0
    /\ CheckedOut(run) \in {0, 1}
    /\ run.acquired <= 1
    /\ run.pc \in {"idle", "done"} => CheckedOut(run) = 0

\* a submission and a registration have both failed at a store call after they had
\* connected, the import run has failed in a batch, and nothing is in flight
C24_Witness ==
    /\ conc[1].op = "submit" /\ conc[1].pc = "done" /\ conc[1].res = 500
    /\ conc[1].acquired = 1 /\ conc[1].released = 1
    /\ conc[2].op = "register" /\ conc[2].pc = "done" /\ conc[2].res = 500
    /\ conc[2].acquired = 1 /\ conc[2].released = 1
    /\ run.pc = "done" /\ run.outcome = "failed"
    /\ run.acquired = 1 /\ run.released = 1

\* C25: the mastery scores a trend request returns, in the order returned, never go
\* down from one row to the next, for a topic with a mastery record as for one without.
C25_TrendNonDecreasing ==
    (trend.status = 200 /\ ~trend.fault) =>
        \A k \in DOMAIN trend.rows : \A l \in DOMAIN trend.rows :
            k < l => trend.rows[k].mastery_score <= trend.rows[l].mastery_score

\* C26: whatever the interleaving of the submissions, the COMMIT of a submission adds
\* the points it earned to the points of its user as they stood just before, and no
\* other step changes the points of any user: no award of a committed submission is
\* lost and the points are the initial points plus the sum of the awards.
Committing(p) ==
    /\ conc[p].op = "submit"
    /\ conc[p].pc = "commit"
    /\ conc'[p].pc = "done"
    /\ conc'[p].res = 200

C26_NoPointsLost ==
    [][\A u \in DOMAIN db.user_stats :
          db'.user_stats[u] =
              IF \E p \in Procs : Committing(p) /\ conc[p].req.userId = u
              THEN db.user_stats[u]
                     + conc[CHOOSE p \in Procs :
                               Committing(p) /\ conc[p].req.userId = u].local.pointsEarned
              ELSE db.user_stats[u]]_vars

\* both handlers have committed overlapping submissions of user 1, and the points of
\* user 1 are the sum of the two awards
C26_Witness ==
    /\ \A p \in Procs :
          /\ ConcCommitted(p)
          /\ conc[p].overlap
          /\ conc[p].req.userId = 1
          /\ conc[p].local.pointsEarned > 0
    /\ conc[1].local.pointsEarned # conc[2].local.pointsEarned
    /\ db.user_stats[1] = conc[1].local.pointsEarned + conc[2].local.pointsEarned

\* C27: of two committed submissions of a user with a stats row on the same mastery
\* record, where one committed right after the other, the later one read the mastery
\* the earlier one wrote, also when the two overlapped: its new mastery is the result
\* of applying the two one after the other, and it is the stored one while no later
\* submission on the record has committed.
C27_NoLostMasteryIncrement ==
    \A p \in Procs : \A q \in Procs \ {p} :
        (/\ ConcCommitted(p) /\ ConcCommitted(q)
         /\ conc[p].req.userId = conc[q].req.userId
         /\ conc[p].req.topic = conc[q].req.topic
         /\ conc[p].req.userId \in DOMAIN db.user_stats
         /\ MasteryRows(db, conc[p].req.userId, conc[p].req.topic) # {}
         /\ conc[q].order = conc[p].order + 1)
        => /\ conc[q].local.currentMastery = conc[p].local.newMastery.num
           /\ conc[q].local.newMastery =
                  newMastery(conc[p].local.newMastery.num, conc[q].local.score)
           /\ conc[q].order = LastRowAt(conc[q].req.userId, conc[q].req.topic)
                 => \A r \in MasteryRows(db, conc[q].req.userId, conc[q].req.topic) :
                       r.mastery_score = conc[q].local.newMastery.num

\* two overlapping submissions on the record of user 1, both with a perfect score,
\* have committed and the record holds both increments
C27_Witness ==
    /\ \A p \in Procs :
          /\ ConcCommitted(p)
          /\ conc[p].overlap
          /\ conc[p].req.userId = 1
          /\ conc[p].req.topic = "SMART Goals"
          /\ conc[p].req.correctAnswers = 1
          /\ conc[p].req.totalQuestions = 1
    /\ conc[2].order = conc[1].order + 1
    /\ \A r \in MasteryRows(db, 1, "SMART Goals") : r.mastery_score = 40

\* the store with the mastery records and the history of userId only
OnlyRowsOf(d, userId) ==
    [d EXCEPT !.user_mastery = {r \in @ : r.user_id = userId},
              !.user_mastery_history = SelectSeq(@, LAMBDA r : r.user_id = userId)]

Scores(rows) == [k \in DOMAIN rows |-> rows[k].mastery_score]

\* the user a step acts for: the user of the trend request it answers, or of the
\* submission it is a step of; 0 for a run of the middleware
ActingUser ==
    IF trend' # trend THEN trend'.userId
    ELSE IF auth' # auth THEN 0
    ELSE req'.userId

HandlerStarts == (pc' = "connect" /\ pc # "connect") \/ trend' # trend

\* C28: a step of a submit or trend request leaves the points, mastery records and
\* history of every user other than the authenticated one unchanged; the mastery a
\* submission reads and the scores a trend returns are those computed from the rows
\* of that user alone; a handler starts only behind a token that verifies, for the
\* user of that token; and a request without a token or with one that does not
\* verify is answered 401 or 403 by the middleware, starts no handler and changes no
\* row.
C28_OwnRowsOnly ==
    [][/\ \A u \in DOMAIN db.users : u # ActingUser => Own(db', u) = Own(db, u)
       /\ (trend' # trend /\ trend'.status = 200) =>
              Scores(trend'.rows) =
                  Scores(TrendRows(OnlyRowsOf(db, ActingUser), ActingUser, trend'.topic))
       /\ (pc = "select" /\ pc' = "update") =>
              local'.currentMastery =
                  StoredOrZero(OnlyRowsOf(db, ActingUser), ActingUser, req.topic)
       /\ HandlerStarts =>
              /\ auth.next
              /\ Verifies(auth.token)
              /\ ActingUser = auth.token.userId
              /\ auth.route = IF trend' # trend THEN "trend" ELSE "submit"
       /\ (auth' # auth /\ ~Verifies(auth'.token)) =>
              /\ ~auth'.next
              /\ auth'.status = IF auth'.token = NoToken THEN 401 ELSE 403
              /\ db' = db
              /\ pc' = pc
              /\ trend' = trend]_vars

\* user 2 has been answered a trend of one row while the history also holds a row of
\* user 1 on the topic, and a later request with a forged token of user 1 was refused
C28_Witness ==
    /\ trend.status = 200
    /\ trend.userId = 2
    /\ Len(trend.rows) = 1
    /\ \E i \in DOMAIN db.user_mastery_history :
          /\ db.user_mastery_history[i].user_id = 1
          /\ db.user_mastery_history[i].topic_name = trend.topic
    /\ auth.token = [kind |-> "forged", userId |-> 1]
    /\ auth.status = 403

\* C30: after a question import that ran to its end, an option stored with
\* is_correct = true for the question of a row is the text of the option column of
\* that row at position correct_answer_index, counting option1..option4 from 0, also
\* when an earlier option column of the row is empty.
C30_CorrectOptionIsIndexedColumn ==
    (run.outcome = "committed" /\ run.script \in {"part_001", "import-questions"}) =>
        /\ Len(db.questions) = Len(run.file)
        /\ \A i \in DOMAIN run.file :
              LET row == run.file[i]
                  stored == db.questions[i].options
              IN  \A j \in DOMAIN stored :
                      stored[j].is_correct =>
                          /\ row.correct_answer_index.kind = "num"
                          /\ row.correct_answer_index.num + 1 \in DOMAIN row.option
                          /\ stored[j].option_text =
                                 row.option[row.correct_answer_index.num + 1]

\* C29: no email has two accounts; every account has its stats row and a mastery
\* record with score 0 for every topic; and a registration request that did not create
\* its account because the email was taken, also by a request that overtook it, is
\* answered 409 (a request that failed on a store fault is left aside).
C29_RegistrationUnique ==
    /\ \A i, j \in DOMAIN db.users : i # j => db.users[i] # db.users[j]
    /\ DOMAIN db.user_stats = DOMAIN db.users
    /\ \A u \in DOMAIN db.users : \A topic \in db.topics :
          MasteryRows(db, u, topic) =
              {[user_id |-> u, topic_name |-> topic, mastery_score |-> 0]}
    /\ \A p \in Procs :
          (/\ conc[p].op = "register"
           /\ conc[p].pc = "done"
           /\ conc[p].local.failedAt \in {"", "unique"})
          => \/ conc[p].res = 201
             \/ conc[p].res = 409 /\ conc[p].email \in Range(db.users)

=============================================================================
